---- MODULE Spec2Model ----
(***************************************************************************)
(* Model of o2::eventgen::GeneratorPythia8                                 *)
(* (Generators/src/GeneratorPythia8.cxx): ancestor sub-event extraction,   *)
(* participant / collision / remnant / free-spectator counting, event      *)
(* generation and header annotation.                                       *)
(*                                                                         *)
(* An event record is a sequence of particles; Pythia8 indexes it from 0,  *)
(* so entry i of the record is element i + 1 of the sequence.  A lineage   *)
(* field equal to 0 is Pythia8's "no mother / no daughter".                *)
(***************************************************************************)
EXTENDS Integers, Sequences, FiniteSets, TLC

VARIABLES
  mPythiaEvent,  \* mPythia.event, the generator's own event record
  mPythiaInfo,   \* mPythia.info: [name, code, hiInfo], hiInfo null or [b, subCollisions]
  pythiaVersion, \* PYTHIA_VERSION_INTEGER of the build
  inputEvent,    \* selectFromAncestor: argument inputEvent
  outputEvent,   \* selectFromAncestor: argument outputEvent
  ancestor,      \* selectFromAncestor: argument ancestor
  gaus,          \* getNfreeSpec: the parametrised averages and the Gaus draws, in tenths
  callLog,       \* generateEvent: what the library answered and what was returned, per call
  header,        \* the MCEventHeader: its impact parameter b and its info map
  ret,           \* the out-parameters (or final locals) of the operation that ran
  pc             \* position: the operation to run, the loop it is in, or that it has run

vars == <<mPythiaEvent, mPythiaInfo, pythiaVersion, inputEvent, outputEvent, ancestor,
          gaus, callLog, header, ret, pc>>

----------------------------------------------------------------------------
(* Bounds of the model *)

\* number of entries of an input event record, the system entry included
NParticles == 4
\* largest length of the output event before selectFromAncestor is called
MaxBase == 1

----------------------------------------------------------------------------
(* Values *)

\* a lineage field that refers to nothing; also what std::map's operator[]
\* yields for a key it does not hold
Unset == 0

NoHiInfo == [nullptr |-> TRUE]
Info(name, code, hiInfo) == [name |-> name, code |-> code, hiInfo |-> hiInfo]
NoInfo == Info("", 0, NoHiInfo)
NoRet == [op |-> "none"]
NoHeader == [b |-> 0, info |-> [k \in {} |-> 0]]
NoGaus == <<>>

\* a particle as the generator reads it; prod stands for the production
\* vertex (xProd, yProd, zProd, tProd) and is 0 when all four are 0
Particle(id, pz, m1, m2, d1, d2) ==
  [id |-> id, pz |-> pz, mother1 |-> m1, mother2 |-> m2,
   daughter1 |-> d1, daughter2 |-> d2, prod |-> 0]

\* event[i] and event.size()
At(event, i) == event[i + 1]
Size(event) == Len(event)

Min(S) == CHOOSE x \in S : \A y \in S : x <= y
Max(S) == CHOOSE x \in S : \A y \in S : x >= y

----------------------------------------------------------------------------
(* selectFromAncestor *)

\* Pythia8::Particle::daughterList() as select calls it: nothing, one daughter,
\* the range daughter1..daughter2, or two separately stored daughters (the
\* extra daughters Pythia8 attaches to the two incoming beams are left out)
daughterList(p) ==
  IF p.daughter1 = 0 /\ p.daughter2 = 0 THEN <<>>
  ELSE IF p.daughter2 = 0 \/ p.daughter2 = p.daughter1 THEN <<p.daughter1>>
  ELSE IF p.daughter2 > p.daughter1
    THEN [k \in 1..(p.daughter2 - p.daughter1 + 1) |-> p.daughter1 + k - 1]
  ELSE <<p.daughter2, p.daughter1>>

\* insert as a std::multiset or a push_back-and-sort would do it: an index is
\* stored once per path that reaches it
insertMulti(selected, i) ==
  LET n == Cardinality({k \in DOMAIN selected : selected[k] < i})
  IN SubSeq(selected, 1, n) \o <<i>> \o SubSeq(selected, n + 1, Len(selected))

\* selected.insert(i) on a std::set<int>, held as the sequence its iteration
\* visits (increasing, no index twice): an index already there is not inserted
insert(selected, i) ==
  IF \E k \in DOMAIN selected : selected[k] = i THEN selected
  ELSE LET n == Cardinality({k \in DOMAIN selected : selected[k] < i})
       IN SubSeq(selected, 1, n) \o <<i>> \o SubSeq(selected, n + 1, Len(selected))

\* the recursive lambda: insert i, then select every daughter of inputEvent[i];
\* selectAll is its for loop over the daughter list
RECURSIVE select(_, _, _), selectAll(_, _, _)
select(event, i, selected) ==
  selectAll(event, daughterList(At(event, i)), insert(selected, i))
selectAll(event, dl, selected) ==
  IF dl = <<>> THEN selected
  ELSE selectAll(event, Tail(dl), select(event, Head(dl), selected))

\* the first loop over selected: indexMap[i] = index++, index starting at
\* outputEvent.size()
RECURSIVE assignIndices(_, _, _)
assignIndices(selected, index, indexMap) ==
  IF selected = <<>> THEN indexMap
  ELSE assignIndices(Tail(selected), index + 1,
         [k \in DOMAIN indexMap \cup {Head(selected)} |->
            IF k = Head(selected) THEN index ELSE indexMap[k]])

\* a lookup that leaves an index it does not find as it was in the input event
lookupUntranslated(indexMap, key) ==
  IF key \in DOMAIN indexMap THEN indexMap[key] ELSE key

\* indexMap[key]: operator[] of std::map<int, int> gives the stored value, or
\* inserts and gives a value-initialised int for a key that is not there
lookup(indexMap, key) ==
  IF key \in DOMAIN indexMap THEN indexMap[key] ELSE Unset

\* the body of the second loop: copy mPythia.event[i], translate its four
\* lineage indices through indexMap
remap(p, indexMap) ==
  [p EXCEPT !.mother1 = lookup(indexMap, p.mother1),
            !.mother2 = lookup(indexMap, p.mother2),
            !.daughter1 = lookup(indexMap, p.daughter1),
            !.daughter2 = lookup(indexMap, p.daughter2)]

\* the second loop over selected: outputEvent.append(p) for each selected i
RECURSIVE appendSelected(_, _, _, _)
appendSelected(selected, event, indexMap, out) ==
  IF selected = <<>> THEN out
  ELSE appendSelected(Tail(selected), event, indexMap,
                      Append(out, remap(At(event, Head(selected)), indexMap)))

\* the function's locals once it has returned: selected, indexMap, and base,
\* the value index is initialised with (outputEvent.size() on entry)
selectLocals(a, input, out) ==
  LET selected == select(input, a, <<>>)
  IN [op |-> "selectFromAncestor", selected |-> selected, base |-> Size(out),
      indexMap |-> assignIndices(selected, Size(out), [k \in {} |-> 0])]

selectFromAncestor(a, input, own, out) ==
  LET l == selectLocals(a, input, out)
  IN appendSelected(l.selected, own, l.indexMap, out)

SelectFromAncestor ==
  /\ pc = "select"
  /\ outputEvent' = selectFromAncestor(ancestor, inputEvent, mPythiaEvent, outputEvent)
  /\ ret' = selectLocals(ancestor, inputEvent, outputEvent)
  /\ pc' = "selected"
  /\ UNCHANGED <<mPythiaEvent, mPythiaInfo, pythiaVersion, inputEvent, ancestor, gaus,
                 callLog, header>>

----------------------------------------------------------------------------
(* The event records selectFromAncestor is given *)

\* the documented daughter1/daughter2 forms of entry i of an n-entry record.
\* The daughters of an entry are all stored after it, or (stored = "before")
\* all before it and after the system entry: the daughter relation is acyclic
DaughterPairs(i, n, stored) ==
  LET where == IF i = 0 \/ stored = "after" THEN (i + 1)..(n - 1) ELSE 1..(i - 1)
  IN {<<0, 0>>}
     \cup {<<k, 0>> : k \in where}
     \cup {<<k, l>> : k \in where, l \in where}

RECURSIVE DaughterChoices(_, _, _)
DaughterChoices(i, n, stored) ==
  IF i = n THEN {<<>>}
  ELSE {<<d>> \o rest : d \in DaughterPairs(i, n, stored),
                        rest \in DaughterChoices(i + 1, n, stored)}

\* the entries that list j among their daughters
MothersOf(dc, j) ==
  {i \in 0..(Len(dc) - 1) :
     \E k \in DOMAIN daughterList(Particle(0, 0, 0, 0, dc[i + 1][1], dc[i + 1][2])) :
        daughterList(Particle(0, 0, 0, 0, dc[i + 1][1], dc[i + 1][2]))[k] = j}

\* an event record with the given daughters: entry 0 is the system entry
\* (id 90), mother1/mother2 are the inverse of the daughter relation
MakeEvent(dc, idBase) ==
  [k \in 1..Len(dc) |->
     LET i == k - 1
         ms == MothersOf(dc, i)
     IN Particle(IF i = 0 THEN 90 ELSE idBase + i, 0,
                 IF ms = {} THEN 0 ELSE Min(ms),
                 IF Cardinality(ms) < 2 THEN 0 ELSE Max(ms),
                 dc[k][1], dc[k][2])]

InputEvents ==
  {MakeEvent(dc, 100) : dc \in DaughterChoices(0, NParticles, "after")
                               \cup DaughterChoices(0, NParticles, "before")}

\* another event record of the same length, for a caller whose inputEvent is
\* not mPythia.event: a decay chain 1 -> 2 -> ...
ChainEvent(n) ==
  [k \in 1..n |->
     LET i == k - 1
     IN Particle(IF i = 0 THEN 90 ELSE 200 + i, 0,
                 IF i <= 1 THEN 0 ELSE i - 1, 0,
                 IF i = 0 \/ i = n - 1 THEN 0 ELSE i + 1, 0)]

\* an output event that already holds base entries: the system entry and
\* photons attached to nothing
OutputOfSize(base) ==
  [k \in 1..base |-> Particle(IF k = 1 THEN 90 ELSE 22, 0, 0, 0, 0, 0)]

InitSelect ==
  /\ pc = "select"
  /\ inputEvent \in InputEvents
  /\ mPythiaEvent \in {inputEvent, ChainEvent(NParticles)}
  /\ ancestor \in 0..(NParticles - 1)
  /\ outputEvent \in {OutputOfSize(base) : base \in 0..MaxBase}
  /\ mPythiaInfo = NoInfo
  /\ pythiaVersion = 8300
  /\ gaus = NoGaus
  /\ callLog = <<>>
  /\ header = NoHeader
  /\ ret = NoRet

NextSelect == SelectFromAncestor

SpecSelect == InitSelect /\ [][NextSelect]_vars

----------------------------------------------------------------------------
(* The recursive selection of selectFromAncestor, one call or return at a time *)

\* the deepest nesting of select the call stack holds; an acyclic record of
\* NParticles entries nests select at most NParticles deep
MaxDepth == NParticles + 1

\* one activation of the lambda: its argument i and what its for loop over
\* inputEvent[i].daughterList() has still to visit
Frame(event, i) == [i |-> i, dl |-> daughterList(At(event, i))]

\* a for loop that never moves on to the next daughter
notAdvanced(frame) == frame

\* the for loop moving on to its next daughter once select(j) has been called
advance(frame) == [frame EXCEPT !.dl = Tail(frame.dl)]

Top(stack) == stack[Len(stack)]

\* select(ancestor): the outermost call inserts the ancestor
SelectAncestor ==
  /\ pc = "traverse"
  /\ ret' = [op |-> "select", selected |-> insert(<<>>, ancestor),
             stack |-> <<Frame(inputEvent, ancestor)>>, revisited |-> FALSE]
  /\ pc' = "traversing"
  /\ UNCHANGED <<mPythiaEvent, mPythiaInfo, pythiaVersion, inputEvent, outputEvent,
                 ancestor, gaus, callLog, header>>

\* select(j) for the next daughter j of the running activation, whether or not
\* j is in selected already (revisited records that one was)
SelectDaughter ==
  /\ pc = "traversing"
  /\ Top(ret.stack).dl # <<>>
  /\ Len(ret.stack) < MaxDepth
  /\ LET j == Head(Top(ret.stack).dl)
     IN ret' = [ret EXCEPT
                  !.selected = insert(@, j),
                  !.stack = Append([@ EXCEPT ![Len(@)] = advance(@)],
                                   Frame(inputEvent, j)),
                  !.revisited = @ \/ \E k \in DOMAIN ret.selected : ret.selected[k] = j]
  /\ UNCHANGED <<mPythiaEvent, mPythiaInfo, pythiaVersion, inputEvent, outputEvent,
                 ancestor, gaus, callLog, header, pc>>

\* the running activation has visited all its daughters and returns; the
\* return of the outermost one ends the selection
SelectReturn ==
  /\ pc = "traversing"
  /\ Top(ret.stack).dl = <<>>
  /\ ret' = [ret EXCEPT !.stack = SubSeq(@, 1, Len(@) - 1)]
  /\ pc' = IF Len(ret.stack) = 1 THEN "traversed" ELSE "traversing"
  /\ UNCHANGED <<mPythiaEvent, mPythiaInfo, pythiaVersion, inputEvent, outputEvent,
                 ancestor, gaus, callLog, header>>

\* a further call with the call stack full: the selection does not return
SelectExhausted ==
  /\ pc = "traversing"
  /\ Top(ret.stack).dl # <<>>
  /\ Len(ret.stack) = MaxDepth
  /\ pc' = "exhausted"
  /\ UNCHANGED <<mPythiaEvent, mPythiaInfo, pythiaVersion, inputEvent, outputEvent,
                 ancestor, gaus, callLog, header, ret>>

\* records whose daughter relation has a cycle: 1 and 2 naming each other, and
\* the ring 1 -> 2 -> ... -> n - 1 -> 1
CyclicEvents ==
  LET n == NParticles
      pair == [k \in 1..n |-> IF k = 2 THEN <<2, 0>> ELSE IF k = 3 THEN <<1, 0>>
                              ELSE <<0, 0>>]
      ring == [k \in 1..n |-> IF k = 1 THEN <<0, 0>> ELSE IF k = n THEN <<1, 0>>
                              ELSE <<k, 0>>]
  IN {MakeEvent(pair, 100), MakeEvent(ring, 100)}

InitTraverse ==
  /\ pc = "traverse"
  /\ inputEvent \in InputEvents \cup CyclicEvents
  /\ mPythiaEvent = inputEvent
  /\ ancestor \in 0..(NParticles - 1)
  /\ outputEvent = <<>>
  /\ mPythiaInfo = NoInfo
  /\ pythiaVersion = 8300
  /\ gaus = NoGaus
  /\ callLog = <<>>
  /\ header = NoHeader
  /\ ret = NoRet

NextTraverse ==
  \/ SelectAncestor
  \/ SelectDaughter
  \/ SelectReturn
  \/ SelectExhausted

\* the program runs on: a call or a return that can be made is made
SpecTraverse == InitTraverse /\ [][NextTraverse]_vars /\ WF_vars(NextTraverse)

----------------------------------------------------------------------------
(* getNcoll, getNpart *)

\* the species codes getNpart compares Nucleon::id() with
ProtonCode == 2212
NeutronCode == 2112

\* a Pythia8::Nucleon as the counters see it: its address, status() and id()
Nucleon(ptr, status, id) == [ptr |-> ptr, status |-> status, id |-> id]
SubCollision(proj, targ) == [proj |-> proj, targ |-> targ]
HiInfo(b, subCollisions) == [b |-> b, subCollisions |-> subCollisions]

\* a flag that takes a diffractive nucleon for an absorbed one
isAbsOrDiff(nucleon) == nucleon.status = "ABS" \/ nucleon.status = "DIFF"

\* the wounded flag of getNcoll: status() == Nucleon::ABS
isAbsorbed(nucleon) == nucleon.status = "ABS"

\* the wounded flag of getNpart: status() == Nucleon::ABS || status() == Nucleon::DIFF
isWounded(nucleon) == nucleon.status = "ABS" \/ nucleon.status = "DIFF"

\* the loop of getNcoll over the sub-collisions, nColl carried along
RECURSIVE countColl(_, _)
countColl(subCollisions, nColl) ==
  IF subCollisions = <<>> THEN nColl
  ELSE LET sc == Head(subCollisions)
       IN countColl(Tail(subCollisions),
                    IF isAbsorbed(sc.proj) /\ isAbsorbed(sc.targ) THEN nColl + 1 ELSE nColl)

getNcoll(info) ==
  IF info.hiInfo = NoHiInfo THEN 0
  ELSE countColl(info.hiInfo.subCollisions, 0)

\* a test that never finds the nucleon among those already counted
neverCounted(wounded, nucleon) == TRUE

\* std::find(wounded.begin(), wounded.end(), nucleon) == wounded.end(), on a
\* vector of Nucleon pointers
notYetCounted(wounded, nucleon) == \A k \in DOMAIN wounded : wounded[k] # nucleon.ptr

\* one side of one loop iteration of getNpart: c is [wounded, nProton, nNeutron]
countSide(c, nucleon) ==
  IF isWounded(nucleon) /\ notYetCounted(c.wounded, nucleon)
    THEN [wounded |-> Append(c.wounded, nucleon.ptr),
          nProton |-> IF nucleon.id = ProtonCode THEN c.nProton + 1 ELSE c.nProton,
          nNeutron |-> IF nucleon.id # ProtonCode /\ nucleon.id = NeutronCode
                         THEN c.nNeutron + 1 ELSE c.nNeutron]
    ELSE c

\* the loop of getNpart over the sub-collisions
RECURSIVE countPart(_, _, _)
countPart(subCollisions, proj, targ) ==
  IF subCollisions = <<>> THEN [proj |-> proj, targ |-> targ]
  ELSE countPart(Tail(subCollisions),
                 countSide(proj, Head(subCollisions).proj),
                 countSide(targ, Head(subCollisions).targ))

NoneCounted == [wounded |-> <<>>, nProton |-> 0, nNeutron |-> 0]

\* getNpart(info, nProtonProj, nNeutronProj, nProtonTarg, nNeutronTarg)
getNpart4(info) ==
  LET c == IF info.hiInfo = NoHiInfo THEN [proj |-> NoneCounted, targ |-> NoneCounted]
           ELSE countPart(info.hiInfo.subCollisions, NoneCounted, NoneCounted)
  IN [nProtonProj |-> c.proj.nProton, nNeutronProj |-> c.proj.nNeutron,
      nProtonTarg |-> c.targ.nProton, nNeutronTarg |-> c.targ.nNeutron]

\* getNpart(info, nPart)
getNpart(info) ==
  LET n == getNpart4(info)
  IN n.nProtonProj + n.nNeutronProj + n.nProtonTarg + n.nNeutronTarg

GetNcoll ==
  /\ pc = "count"
  /\ ret' = [op |-> "getNcoll", nColl |-> getNcoll(mPythiaInfo)]
  /\ pc' = "counted"
  /\ UNCHANGED <<mPythiaEvent, mPythiaInfo, pythiaVersion, inputEvent, outputEvent,
                 ancestor, gaus, callLog, header>>

GetNpart ==
  /\ pc = "count"
  /\ ret' = [op |-> "getNpart", nPart |-> getNpart(mPythiaInfo),
             n |-> getNpart4(mPythiaInfo)]
  /\ pc' = "counted"
  /\ UNCHANGED <<mPythiaEvent, mPythiaInfo, pythiaVersion, inputEvent, outputEvent,
                 ancestor, gaus, callLog, header>>

\* largest number of sub-collisions in the list
MaxSubColl == 2

\* the nucleons of one nucleus that sub-collisions can involve
Nucleus ==
  {Nucleon(1, "ABS", ProtonCode), Nucleon(2, "ABS", ProtonCode),
   Nucleon(3, "ABS", NeutronCode), Nucleon(4, "DIFF", ProtonCode),
   Nucleon(5, "DIFF", NeutronCode), Nucleon(6, "ELASTIC", ProtonCode),
   Nucleon(7, "UNWOUNDED", NeutronCode)}

SubCollisions == {SubCollision(p, t) : p \in Nucleus, t \in Nucleus}

RECURSIVE SeqsUpTo(_, _)
SeqsUpTo(S, n) ==
  IF n = 0 THEN {<<>>}
  ELSE {<<>>} \cup {<<x>> \o rest : x \in S, rest \in SeqsUpTo(S, n - 1)}

InitCount ==
  /\ pc = "count"
  /\ mPythiaInfo \in {NoInfo} \cup
       {Info("Angantyr", 101, HiInfo(0, scs)) : scs \in SeqsUpTo(SubCollisions, MaxSubColl)}
  /\ mPythiaEvent = <<>>
  /\ pythiaVersion = 8300
  /\ inputEvent = <<>>
  /\ outputEvent = <<>>
  /\ ancestor = 0
  /\ gaus = NoGaus
  /\ callLog = <<>>
  /\ header = NoHeader
  /\ ret = NoRet

NextCount == GetNcoll \/ GetNpart

SpecCount == InitCount /\ [][NextCount]_vars

----------------------------------------------------------------------------
(* getNremn *)

\* the threshold a nuclear code must reach: pdg < 1000000000 is skipped
NucleusThreshold == 1000000000

\* pdg /= 10; A = pdg % 1000
decodeA(pdg) == (pdg \div 10) % 1000

\* a decoding that forgets to drop the last digit before taking Z
decodeZShifted(pdg) == (pdg \div 1000) % 1000

\* pdg /= 10; pdg /= 1000; Z = pdg % 1000
decodeZ(pdg) == ((pdg \div 10) \div 1000) % 1000

\* pdg /= 10; pdg /= 1000; pdg /= 1000; L = pdg % 10
decodeL(pdg) == (((pdg \div 10) \div 1000) \div 1000) % 10

\* nuclear remnants have pdg code 10LZZZAAA9: not below the threshold, last
\* digit 9 (pdg is not negative here, so % is C++'s %)
isRemnant(pdg) == ~(pdg < NucleusThreshold) /\ ~(pdg % 10 # 9)

\* the particle loop of getNremn: n is the four counts and nNucRem
RECURSIVE countRemn(_, _, _)
countRemn(event, ipa, n) ==
  IF ~(ipa < Size(event)) THEN n
  ELSE LET particle == At(event, ipa)
           pdg == particle.id
           A == decodeA(pdg)
           Z == decodeZ(pdg)
           proj == IF particle.pz > 0
                     THEN [n EXCEPT !.nProtonProj = Z, !.nNeutronProj = A - Z]
                     ELSE n
           both == IF particle.pz < 0
                     THEN [proj EXCEPT !.nProtonTarg = Z, !.nNeutronTarg = A - Z]
                     ELSE proj
       IN countRemn(event, ipa + 1,
                    IF isRemnant(pdg) THEN [both EXCEPT !.nNucRem = n.nNucRem + 1] ELSE n)

getNremn(event) ==
  countRemn(event, 0, [nProtonProj |-> 0, nNeutronProj |-> 0, nProtonTarg |-> 0,
                       nNeutronTarg |-> 0, nNucRem |-> 0])

GetNremn ==
  /\ pc = "remn"
  /\ ret' = [op |-> "getNremn", n |-> getNremn(mPythiaEvent),
             warned |-> getNremn(mPythiaEvent).nNucRem > 2]
  /\ pc' = "remnDone"
  /\ UNCHANGED <<mPythiaEvent, mPythiaInfo, pythiaVersion, inputEvent, outputEvent,
                 ancestor, gaus, callLog, header>>

\* largest number of particles of the event getNremn reads
MaxRemnEvent == 2

\* the identifier 10LZZZAAA9 of the remnant with mass number A, charge Z, flag L
RemnantId(azl) == 1000000009 + azl[3] * 10000000 + azl[2] * 10000 + azl[1] * 10

\* <<A, Z, L>> of the remnants: lead-208, a helium-4 with L = 1, a neutron
RemnantNuclei == {<<208, 82, 0>>, <<4, 2, 1>>, <<1, 0, 0>>}

\* remnants moving either way or not at all
Remnants == {Particle(RemnantId(azl), pz, 0, 0, 0, 0) : azl \in RemnantNuclei, pz \in {-1, 0, 1}}

\* a proton, the lead-208 ion 1000822080, an identifier below the threshold
\* that ends in 9, and the negative of a remnant code
NonRemnants ==
  {Particle(2212, 1, 0, 0, 0, 0), Particle(2212, -1, 0, 0, 0, 0),
   Particle(1000822080, 1, 0, 0, 0, 0), Particle(1000822080, -1, 0, 0, 0, 0),
   Particle(999999999, 1, 0, 0, 0, 0), Particle(-1000822089, -1, 0, 0, 0, 0)}

InitRemn ==
  /\ pc = "remn"
  /\ mPythiaEvent \in SeqsUpTo(Remnants \cup NonRemnants, MaxRemnEvent)
  /\ mPythiaInfo = NoInfo
  /\ pythiaVersion = 8300
  /\ inputEvent = <<>>
  /\ outputEvent = <<>>
  /\ ancestor = 0
  /\ gaus = NoGaus
  /\ callLog = <<>>
  /\ header = NoHeader
  /\ ret = NoRet

NextRemn == GetNremn

SpecRemn == InitRemn /\ [][NextRemn]_vars

----------------------------------------------------------------------------
(* getNfreeSpec *)
(* A floating-point value (a parametrised average, a Gaus draw) is held as *)
(* [tooBig, tenths]: tenths of a unit (1265 is 126.5), or, with tooBig set, *)
(* a value of the sign of tenths whose magnitude no int holds (or a NaN).   *)

\* the physical maxima the draws are clipped to
MaxFreeNeutrons == 126
MaxFreeProtons == 82

IntMax == 2147483647
IntMin == -IntMax - 1

Float(tenths) == [tooBig |-> FALSE, tenths |-> tenths]
BeyondInt(sign) == [tooBig |-> TRUE, tenths |-> sign]

\* x < 0
Negative(x) == x.tenths < 0

\* (int)x: the value truncated towards zero when an int can hold it; otherwise
\* the conversion is undefined and any int may result
IntCast(x) ==
  IF x.tooBig
    THEN {IntMin, -1, 0, MaxFreeProtons + 1, MaxFreeNeutrons + 1, IntMax}
  ELSE IF x.tenths >= 0 THEN {x.tenths \div 10} ELSE {-((-x.tenths) \div 10)}

\* x / 0.7
DividedBy07(x) ==
  IF x.tooBig THEN x
  ELSE IF x.tenths >= 0 THEN Float((x.tenths * 10) \div 7)
  ELSE Float(-(((-x.tenths) * 10) \div 7))

\* a clipping that forgets the lower limit
clipAbove(n, ave, max) == IF n > max THEN max ELSE n

\* if (ave < 0 || n < 0) n = 0; if (n > max) n = max;
clip(n, ave, max) ==
  LET m == IF Negative(ave) \/ n < 0 THEN 0 ELSE n
  IN IF m > max THEN max ELSE m

GetNfreeSpecNoHiInfo ==
  /\ pc = "free"
  /\ mPythiaInfo.hiInfo = NoHiInfo
  /\ ret' = [op |-> "getNfreeSpec", assigned |-> FALSE]
  /\ pc' = "freeDone"
  /\ UNCHANGED <<mPythiaEvent, mPythiaInfo, pythiaVersion, inputEvent, outputEvent,
                 ancestor, gaus, callLog, header>>

\* up to the first loop: nneu = {0, 0}
GetNfreeSpecEnter ==
  /\ pc = "free"
  /\ mPythiaInfo.hiInfo # NoHiInfo
  /\ ret' = [op |-> "getNfreeSpec", assigned |-> FALSE, i |-> 0,
             nneu |-> <<0, 0>>, npro |-> <<0, 0>>]
  /\ pc' = "freeNeutrons"
  /\ UNCHANGED <<mPythiaEvent, mPythiaInfo, pythiaVersion, inputEvent, outputEvent,
                 ancestor, gaus, callLog, header>>

\* one iteration of the neutron loop
GetNfreeSpecNeutrons(nfree, cast) ==
  /\ pc = "freeNeutrons"
  /\ cast \in IntCast(nfree)
  /\ gaus' = [gaus EXCEPT !.drawn = nfree]
  /\ ret' = [ret EXCEPT !.nneu[ret.i + 1] = clip(cast, gaus.nave, MaxFreeNeutrons),
                        !.i = IF ret.i + 1 < 2 THEN ret.i + 1 ELSE 0]
  /\ pc' = IF ret.i + 1 < 2 THEN "freeNeutrons" ELSE "freeProtons"
  /\ UNCHANGED <<mPythiaEvent, mPythiaInfo, pythiaVersion, inputEvent, outputEvent,
                 ancestor, callLog, header>>

\* one iteration of the proton loop; after the last one the four counts are
\* assigned to the out-parameters
GetNfreeSpecProtons(drawn, cast) ==
  /\ pc = "freeProtons"
  /\ cast \in IntCast(DividedBy07(drawn))
  /\ gaus' = [gaus EXCEPT !.drawn = drawn]
  /\ LET npro == [ret.npro EXCEPT ![ret.i + 1] = clip(cast, gaus.pave, MaxFreeProtons)]
     IN IF ret.i + 1 < 2
          THEN /\ ret' = [ret EXCEPT !.npro = npro, !.i = ret.i + 1]
               /\ pc' = "freeProtons"
          ELSE /\ ret' = [op |-> "getNfreeSpec", assigned |-> TRUE,
                          nFreenProj |-> ret.nneu[1], nFreenTarg |-> ret.nneu[2],
                          nFreepProj |-> npro[1], nFreepTarg |-> npro[2]]
               /\ pc' = "freeDone"
  /\ UNCHANGED <<mPythiaEvent, mPythiaInfo, pythiaVersion, inputEvent, outputEvent,
                 ancestor, callLog, header>>

\* what Gaus may return: beyond what an int holds on either side, just
\* negative, zero, within and just above the maxima
GausValues ==
  {BeyondInt(-1), BeyondInt(1)} \cup
  {Float(x) : x \in {-15, -9, 0, 9, 573, 575, 825, 1265, 1269, 1270}}

\* what the parametrisations may evaluate to
Averages == {Float(-5), Float(0), Float(600)}

InitFree ==
  /\ pc = "free"
  /\ mPythiaInfo \in {NoInfo} \cup {Info("Angantyr", 101, HiInfo(b, <<>>)) : b \in {0, 7}}
  /\ gaus \in [nave : Averages, pave : Averages, drawn : {Float(0)}]
  /\ mPythiaEvent = <<>>
  /\ pythiaVersion = 8300
  /\ inputEvent = <<>>
  /\ outputEvent = <<>>
  /\ ancestor = 0
  /\ callLog = <<>>
  /\ header = NoHeader
  /\ ret = NoRet

NextFree ==
  \/ GetNfreeSpecNoHiInfo
  \/ GetNfreeSpecEnter
  \/ \E nfree \in GausValues : \E cast \in IntCast(nfree) :
        GetNfreeSpecNeutrons(nfree, cast)
  \/ \E drawn \in GausValues : \E cast \in IntCast(DividedBy07(drawn)) :
        GetNfreeSpecProtons(drawn, cast)

SpecFree == InitFree /\ [][NextFree]_vars

----------------------------------------------------------------------------
(* generateEvent *)

\* the first version of the Pythia 8.3 series: below it hadron decays are
\* inhibited at Init and run by generateEvent
FirstUnpatchedVersion == 8300

\* a return value that ignores what moreDecays answered
returnedIgnoringDecays(next, decays) == next = "ok"

\* what generateEvent returns: false when next() failed, false when
\* moreDecays() was called and failed, true otherwise
returned(next, decays) ==
  IF next # "ok" THEN FALSE
  ELSE IF decays = "failed" THEN FALSE
  ELSE TRUE

\* force production vertices to (0,0,0,0)
zeroVertices(event) == [k \in DOMAIN event |-> [event[k] EXCEPT !.prod = 0]]

\* largest number of calls of generateEvent
MaxCalls == 3

\* one call: the library answers next (and, in a build against Pythia 8.2,
\* decays; otherwise moreDecays is not called) and leaves produced.event and
\* produced.info in mPythia
GenerateEvent(next, decays, produced) ==
  /\ pc \in {"ready", "headerUpdated"}
  /\ Len(callLog) < MaxCalls
  /\ decays = "not called" <=> (next # "ok" \/ ~(pythiaVersion < FirstUnpatchedVersion))
  /\ mPythiaInfo' = produced.info
  /\ mPythiaEvent' = IF next = "ok" /\ pythiaVersion < FirstUnpatchedVersion
                       THEN zeroVertices(produced.event)
                       ELSE produced.event
  /\ callLog' = Append(callLog, [next |-> next, decays |-> decays,
                                 returned |-> returned(next, decays)])
  /\ ret' = [op |-> "generateEvent", returned |-> returned(next, decays)]
  /\ pc' = "ready"
  /\ UNCHANGED <<pythiaVersion, inputEvent, outputEvent, ancestor, gaus, header>>

----------------------------------------------------------------------------
(* updateHeader *)

\* eventHeader->putInfo<T>(key, value)
putInfo(h, key, value) ==
  [h EXCEPT !.info = [k \in DOMAIN h.info \cup {key} |->
                        IF k = key THEN value ELSE h.info[k]]]

\* eventHeader->SetB(b)
SetB(h, b) == [h EXCEPT !.b = b]

RECURSIVE putAll(_, _)
putAll(h, pairs) ==
  IF pairs = <<>> THEN h
  ELSE putAll(putInfo(h, Head(pairs)[1], Head(pairs)[2]), Tail(pairs))

\* getNfreeSpec as one call, free holding the averages and, per loop
\* iteration, what (int) made of the Gaus draw
getNfreeSpec(free) ==
  [nFreenProj |-> clip(free.nneu[1], free.nave, MaxFreeNeutrons),
   nFreenTarg |-> clip(free.nneu[2], free.nave, MaxFreeNeutrons),
   nFreepProj |-> clip(free.npro[1], free.pave, MaxFreeProtons),
   nFreepTarg |-> clip(free.npro[2], free.pave, MaxFreeProtons)]

\* the heavy-ion block with the counts of getNpart and getNfreeSpec attached
\* in each other's parameter order (proton/neutron exchanged on both sides)
hiPairsMisordered(info, event, free) ==
  LET nPart == getNpart4(info)
      nRemn == getNremn(event)
      nFree == getNfreeSpec(free)
  IN <<<<"Bimpact", info.hiInfo.b>>,
       <<"Ncoll", getNcoll(info)>>,
       <<"Npart", getNpart(info)>>,
       <<"Npart_proj_p", nPart.nNeutronProj>>,
       <<"Npart_proj_n", nPart.nProtonProj>>,
       <<"Npart_targ_p", nPart.nNeutronTarg>>,
       <<"Npart_targ_n", nPart.nProtonTarg>>,
       <<"Nremn_proj_p", nRemn.nProtonProj>>,
       <<"Nremn_proj_n", nRemn.nNeutronProj>>,
       <<"Nremn_targ_p", nRemn.nProtonTarg>>,
       <<"Nremn_targ_n", nRemn.nNeutronTarg>>,
       <<"Nfree_proj_n", nFree.nFreepProj>>,
       <<"Nfree_proj_p", nFree.nFreenProj>>,
       <<"Nfree_targ_n", nFree.nFreepTarg>>,
       <<"Nfree_targ_p", nFree.nFreenTarg>>>>

\* the key/value pairs of the heavy-ion block, in the order they are put
hiPairs(info, event, free) ==
  LET nPart == getNpart4(info)
      nRemn == getNremn(event)
      nFree == getNfreeSpec(free)
  IN <<<<"Bimpact", info.hiInfo.b>>,
       <<"Ncoll", getNcoll(info)>>,
       <<"Npart", getNpart(info)>>,
       <<"Npart_proj_p", nPart.nProtonProj>>,
       <<"Npart_proj_n", nPart.nNeutronProj>>,
       <<"Npart_targ_p", nPart.nProtonTarg>>,
       <<"Npart_targ_n", nPart.nNeutronTarg>>,
       <<"Nremn_proj_p", nRemn.nProtonProj>>,
       <<"Nremn_proj_n", nRemn.nNeutronProj>>,
       <<"Nremn_targ_p", nRemn.nProtonTarg>>,
       <<"Nremn_targ_n", nRemn.nNeutronTarg>>,
       <<"Nfree_proj_n", nFree.nFreenProj>>,
       <<"Nfree_proj_p", nFree.nFreepProj>>,
       <<"Nfree_targ_n", nFree.nFreenTarg>>,
       <<"Nfree_targ_p", nFree.nFreepTarg>>>>

updateHeader(h, version, info, event, free) ==
  LET basic == putAll(h, <<<<"generator", "pythia8">>,
                           <<"version", version>>,
                           <<"processName", info.name>>,
                           <<"processCode", info.code>>>>)
  IN IF info.hiInfo # NoHiInfo
       THEN putAll(SetB(basic, info.hiInfo.b), hiPairs(info, event, free))
       ELSE basic

\* what the (int) conversions of the two draws of one loop may give
IntCasts(draws) ==
  {c \in [1..2 -> IntCast(draws[1]) \cup IntCast(draws[2])] :
     \A k \in 1..2 : c[k] \in IntCast(draws[k])}

\* one call; nneu and npro are what (int) made of the Gaus draws of
\* getNfreeSpec, which is only called when there is heavy-ion info
UpdateHeader(nneu, npro) ==
  /\ pc \in {"ready", "headerUpdated"}
  /\ callLog # <<>>
  /\ LET free == [nave |-> gaus.nave, pave |-> gaus.pave, nneu |-> nneu, npro |-> npro]
     IN /\ header' = updateHeader(header, pythiaVersion, mPythiaInfo, mPythiaEvent, free)
        /\ gaus' = IF mPythiaInfo.hiInfo # NoHiInfo THEN [gaus EXCEPT !.free = free]
                   ELSE gaus
  /\ ret' = [op |-> "updateHeader"]
  /\ pc' = "headerUpdated"
  /\ UNCHANGED <<mPythiaEvent, mPythiaInfo, pythiaVersion, inputEvent, outputEvent,
                 ancestor, callLog>>

\* what the library may leave in mPythia after a call of next: with the
\* heavy-ion model, a collision with a proton wounded in two sub-collisions
\* and two remnants, or one without sub-collisions; without it, a pp event
Produced(heavyIon) ==
  IF heavyIon
    THEN {[info |-> Info("Angantyr", 101,
                         HiInfo(0, <<SubCollision(Nucleon(1, "ABS", ProtonCode),
                                                   Nucleon(3, "ABS", NeutronCode)),
                                     SubCollision(Nucleon(1, "ABS", ProtonCode),
                                                   Nucleon(4, "DIFF", ProtonCode))>>)),
           event |-> <<[Particle(90, 0, 0, 0, 0, 0) EXCEPT !.prod = 3],
                       [Particle(RemnantId(<<4, 2, 1>>), 1, 0, 0, 0, 0) EXCEPT !.prod = 3],
                       Particle(RemnantId(<<1, 0, 0>>), -1, 0, 0, 0, 0)>>],
          [info |-> Info("Angantyr", 105, HiInfo(70, <<>>)),
           event |-> <<Particle(90, 0, 0, 0, 0, 0),
                       Particle(RemnantId(<<208, 82, 0>>), -1, 0, 0, 0, 0)>>]}
    ELSE {[info |-> Info("SoftQCD", 101, NoHiInfo),
           event |-> <<Particle(90, 0, 0, 0, 0, 0),
                       [Particle(2212, 1, 0, 0, 0, 0) EXCEPT !.prod = 3]>>],
          [info |-> Info("HardQCD", 111, NoHiInfo),
           event |-> <<Particle(90, 0, 0, 0, 0, 0), Particle(2212, -1, 0, 0, 0, 0)>>]}

\* the draws of getNfreeSpec inside updateHeader
HeaderDraws == {Float(305), Float(573)}

InitGen ==
  /\ pc = "ready"
  /\ pythiaVersion \in {8245, 8309}
  /\ mPythiaInfo \in {Info("", 0, NoHiInfo), Info("", 0, HiInfo(0, <<>>))}
  /\ mPythiaEvent = <<>>
  /\ callLog = <<>>
  /\ header = NoHeader
  /\ gaus = [nave |-> Float(600), pave |-> Float(600), drawn |-> Float(0),
             free |-> [nave |-> Float(600), pave |-> Float(600),
                       nneu |-> <<0, 0>>, npro |-> <<0, 0>>]]
  /\ inputEvent = <<>>
  /\ outputEvent = <<>>
  /\ ancestor = 0
  /\ ret = NoRet

NextGen ==
  \/ \E next \in {"ok", "failed"} : \E decays \in {"ok", "failed", "not called"} :
       \E produced \in Produced(mPythiaInfo.hiInfo # NoHiInfo) :
          GenerateEvent(next, decays, produced)
  \/ \E dn \in [1..2 -> HeaderDraws] : \E dp \in [1..2 -> HeaderDraws] :
       \E nneu \in IntCasts(dn) : \E npro \in IntCasts([k \in 1..2 |-> DividedBy07(dp[k])]) :
          UpdateHeader(nneu, npro)

SpecGen == InitGen /\ [][NextGen]_vars

----------------------------------------------------------------------------
(* Claims about selectFromAncestor *)

Range(seq) == {seq[k] : k \in DOMAIN seq}

\* the transitive daughter closure, as the least set that holds S and the
\* daughters of each of its members
RECURSIVE Reach(_, _)
Reach(event, S) ==
  LET T == S \cup UNION {Range(daughterList(At(event, i))) : i \in S}
  IN IF T = S THEN S ELSE Reach(event, T)

Closure(event, a) == Reach(event, {a})

\* the k-th smallest member of a set of indices, k from 1
RECURSIVE Nth(_, _)
Nth(S, k) == IF k = 1 THEN Min(S) ELSE Nth(S \ {Min(S)}, k - 1)

\* the output position of selected index i: base plus the number of selected
\* indices below it
Pos(C, base, i) == base + Cardinality({j \in C : j < i})

LineageFields == {"mother1", "mother2", "daughter1", "daughter2"}

Selected == pc = "selected"
OwnEvent == mPythiaEvent = inputEvent
Appended == (ret.base + 1)..Len(outputEvent)

\* an index of the input event that two different daughter paths from the
\* ancestor reach
MultiPath ==
  \E j \in Closure(inputEvent, ancestor) :
     Cardinality({i \in Closure(inputEvent, ancestor) :
                    j \in Range(daughterList(At(inputEvent, i)))}) >= 2

\* C1: selectFromAncestor appends exactly one entry per index of {ancestor}
\* united with the ancestor's transitive daughter closure, in increasing index
\* order after the entries the output event already held, and nothing else;
\* an index reached over several daughter paths is appended once.
C1_ExactlyClosure ==
  Selected =>
    LET C == Closure(inputEvent, ancestor)
    IN /\ Len(outputEvent) = ret.base + Cardinality(C)
       /\ SubSeq(outputEvent, 1, ret.base) = OutputOfSize(ret.base)
       /\ \A k \in 1..Cardinality(C) :
            outputEvent[ret.base + k].id = At(mPythiaEvent, Nth(C, k)).id

C1_Witness ==
  /\ Selected
  /\ MultiPath
  /\ ancestor # 0
  /\ Cardinality(Closure(inputEvent, ancestor)) = 3
  /\ Len(outputEvent) = ret.base + 3

\* C2: every mother1, mother2, daughter1 and daughter2 of every appended entry
\* is unset or an index strictly below the output event's length, for every
\* ancestor (index 0 included) and every output event (non-empty included).
C2_NoDangling ==
  Selected =>
    \A k \in Appended : \A f \in LineageFields :
       \/ outputEvent[k][f] = Unset
       \/ outputEvent[k][f] \in 0..(Len(outputEvent) - 1)

C2_Witness ==
  /\ Selected
  /\ ancestor # 0
  /\ ret.base > 0
  /\ \E k \in Appended : outputEvent[k].mother2 # Unset
  /\ \E k \in Appended : outputEvent[k].daughter1 # Unset
  /\ \E i \in Closure(inputEvent, ancestor) :
        At(mPythiaEvent, i).mother1 \notin Closure(inputEvent, ancestor) \cup {Unset}

\* C3 (as claimed): the selected indices get the dense positions base, base+1,
\* ...; a lineage field of a selected input particle that holds a selected
\* index j comes out as the position of j, and a field that is unset or holds
\* an index that was not selected comes out unset, never as the position of a
\* selected particle.  Stated for an input event that is the generator's own
\* and an output event that already holds its system entry.
C3_TranslatedOrUnset ==
  (Selected /\ OwnEvent /\ ret.base > 0) =>
    LET C == Closure(inputEvent, ancestor)
    IN \A i \in C : \A f \in LineageFields :
         LET v == At(inputEvent, i)[f]
             w == outputEvent[Pos(C, ret.base, i) + 1][f]
         IN IF v # Unset /\ v \in C
              THEN w = Pos(C, ret.base, v)
              ELSE w = Unset /\ w \notin {Pos(C, ret.base, j) : j \in C}

\* C4 (as claimed): when the ancestor has no daughters, exactly one particle is
\* appended and all four of its lineage fields are unset.  Stated for an input
\* event that is the generator's own.
C4_LoneAncestorUnlinked ==
  (Selected /\ OwnEvent /\ daughterList(At(inputEvent, ancestor)) = <<>>) =>
    /\ Len(outputEvent) = ret.base + 1
    /\ \A f \in LineageFields : outputEvent[Len(outputEvent)][f] = Unset

\* what of a particle is not lineage: its identity, its kinematics and its
\* production vertex
NonLineageFields == {"id", "pz", "prod"}

\* C11 (as claimed): every appended entry is a copy of the particle at the
\* selected index of the input event the caller passed (same identity, same
\* kinematics, same vertex as inputEvent[i]; only the lineage fields differ),
\* also when that input event is not the generator's own event record.
C11_CopiesOfInputEvent ==
  Selected =>
    LET C == Closure(inputEvent, ancestor)
    IN \A i \in C : \A f \in NonLineageFields :
         outputEvent[Pos(C, ret.base, i) + 1][f] = At(inputEvent, i)[f]

\* no entry is among its own descendants
Acyclic(event) ==
  \A i \in 0..(Size(event) - 1) :
     i \notin Reach(event, Range(daughterList(At(event, i))))

Traversed == pc = "traversed"

\* C12: for every input event whose daughter relation is acyclic, the
\* recursive selection started at any ancestor returns, also when an index is
\* reachable from the ancestor over more than one daughter path; select is
\* called again for an index that is selected already.
C12_SelectionTerminates ==
  (pc = "traverse" /\ Acyclic(inputEvent)) ~> Traversed

\* a finished selection in which an index reached over two daughter paths was
\* visited more than once and stored once
C12_Witness ==
  /\ Traversed
  /\ Acyclic(inputEvent)
  /\ MultiPath
  /\ ret.revisited
  /\ Range(ret.selected) = Closure(inputEvent, ancestor)
  /\ ret.selected = select(inputEvent, ancestor, <<>>)

----------------------------------------------------------------------------
(* Claims about getNpart and getNcoll *)

Counted == pc = "counted"

TheSubCollisions ==
  IF mPythiaInfo.hiInfo = NoHiInfo THEN <<>> ELSE mPythiaInfo.hiInfo.subCollisions

\* the distinct nucleons (by address) on one side of the list that are absorbed
\* or diffractive and of the given species
Participants(side, species) ==
  {TheSubCollisions[k][side].ptr : k \in
     {k \in DOMAIN TheSubCollisions :
        /\ TheSubCollisions[k][side].status \in {"ABS", "DIFF"}
        /\ TheSubCollisions[k][side].id = species}}

\* C5: getNpart gives, per side and species, the number of distinct nucleons
\* of that side and species that are absorbed or diffractive (a nucleon in
\* several sub-collisions counts once); nPart is the sum of the four; all are
\* zero for an empty list or absent heavy-ion info.
C5_DistinctParticipants ==
  (Counted /\ ret.op = "getNpart") =>
    /\ ret.n.nProtonProj = Cardinality(Participants("proj", ProtonCode))
    /\ ret.n.nNeutronProj = Cardinality(Participants("proj", NeutronCode))
    /\ ret.n.nProtonTarg = Cardinality(Participants("targ", ProtonCode))
    /\ ret.n.nNeutronTarg = Cardinality(Participants("targ", NeutronCode))
    /\ ret.nPart = ret.n.nProtonProj + ret.n.nNeutronProj
                     + ret.n.nProtonTarg + ret.n.nNeutronTarg
    /\ TheSubCollisions = <<>> =>
         ret.nPart = 0 /\ \A f \in DOMAIN ret.n : ret.n[f] = 0

\* the same absorbed projectile proton in two sub-collisions, with two
\* different wounded target nucleons
C5_Witness ==
  /\ Counted /\ ret.op = "getNpart"
  /\ Len(TheSubCollisions) = 2
  /\ TheSubCollisions[1].proj = TheSubCollisions[2].proj
  /\ TheSubCollisions[1].proj.status = "ABS"
  /\ TheSubCollisions[1].targ.ptr # TheSubCollisions[2].targ.ptr
  /\ ret.n.nProtonProj = 1
  /\ ret.nPart = 3

Reorderings(seq) ==
  {[k \in DOMAIN seq |-> seq[f[k]]] :
     f \in {g \in [DOMAIN seq -> DOMAIN seq] : \A i, j \in DOMAIN seq : g[i] = g[j] => i = j}}

\* C6: getNcoll gives the number of sub-collisions whose projectile and target
\* nucleon are both absorbed (a diffractive one on either side does not
\* count), whatever the order of the list, and 0 for an empty list or absent
\* heavy-ion info.
C6_BothAbsorbed ==
  (Counted /\ ret.op = "getNcoll") =>
    /\ ret.nColl = Cardinality({k \in DOMAIN TheSubCollisions :
                      /\ TheSubCollisions[k].proj.status = "ABS"
                      /\ TheSubCollisions[k].targ.status = "ABS"})
    /\ \A scs \in Reorderings(TheSubCollisions) :
         countColl(scs, 0) = ret.nColl
    /\ TheSubCollisions = <<>> => ret.nColl = 0

\* one sub-collision of two absorbed nucleons, one with a diffractive target
C6_Witness ==
  /\ Counted /\ ret.op = "getNcoll"
  /\ Len(TheSubCollisions) = 2
  /\ TheSubCollisions[1].proj.status = "ABS" /\ TheSubCollisions[1].targ.status = "DIFF"
  /\ TheSubCollisions[2].proj.status = "ABS" /\ TheSubCollisions[2].targ.status = "ABS"
  /\ ret.nColl = 1

----------------------------------------------------------------------------
(* Claims about getNremn *)

\* the positions of the event that hold a remnant, by its identifier's form
RemnantAt == {k \in DOMAIN mPythiaEvent : \E azl \in RemnantNuclei :
                mPythiaEvent[k].id = RemnantId(azl)}

SelectSeq2(seq, keep) ==
  LET F[k \in 0..Len(seq)] ==
        IF k = 0 THEN <<>>
        ELSE IF k \in keep THEN Append(F[k - 1], seq[k]) ELSE F[k - 1]
  IN F[Len(seq)]

\* C7: with one remnant 10LZZZAAA9 in the event, pz > 0 gives projectile
\* protons Z and neutrons A - Z and leaves the target counts 0, pz < 0 gives
\* the target counts and leaves the projectile counts 0 (A = 208, Z = 82, L = 0,
\* pz > 0: 82 and 126); particles whose identifier is below 1000000000 or does
\* not end in 9 change no count.
C7_RemnantDecoded ==
  (pc = "remnDone") =>
    /\ \A k \in RemnantAt : \A azl \in RemnantNuclei :
         (RemnantAt = {k} /\ mPythiaEvent[k].id = RemnantId(azl)) =>
            /\ mPythiaEvent[k].pz > 0 =>
                 /\ ret.n.nProtonProj = azl[2] /\ ret.n.nNeutronProj = azl[1] - azl[2]
                 /\ ret.n.nProtonTarg = 0 /\ ret.n.nNeutronTarg = 0
            /\ mPythiaEvent[k].pz < 0 =>
                 /\ ret.n.nProtonTarg = azl[2] /\ ret.n.nNeutronTarg = azl[1] - azl[2]
                 /\ ret.n.nProtonProj = 0 /\ ret.n.nNeutronProj = 0
    /\ (\E k \in DOMAIN mPythiaEvent :
           mPythiaEvent[k].id = 1000822089 /\ mPythiaEvent[k].pz > 0 /\ RemnantAt = {k})
         => ret.n.nProtonProj = 82 /\ ret.n.nNeutronProj = 126
    /\ ret.n = getNremn(SelectSeq2(mPythiaEvent, RemnantAt))
    /\ RemnantAt = {} => \A f \in DOMAIN ret.n : ret.n[f] = 0

\* the lead remnant going forward, after the lead ion that is no remnant
C7_Witness ==
  /\ pc = "remnDone"
  /\ Len(mPythiaEvent) = 2
  /\ mPythiaEvent[1].id = 1000822080
  /\ mPythiaEvent[2].id = 1000822089 /\ mPythiaEvent[2].pz > 0
  /\ ret.n.nProtonProj = 82 /\ ret.n.nNeutronProj = 126
  /\ ret.n.nNucRem = 1

----------------------------------------------------------------------------
(* Claims about getNfreeSpec *)

\* C8: with heavy-ion info present, whatever Gaus returns, the free-neutron
\* counts returned are in 0..126 and the free-proton counts in 0..82 on both
\* sides; a draw out of range is clipped, and the call completes.
C8_FreeSpectatorsClipped ==
  /\ (pc \in {"freeNeutrons", "freeProtons"}) =>
       /\ \A k \in 1..2 : ret.nneu[k] \in 0..MaxFreeNeutrons
       /\ \A k \in 1..2 : ret.npro[k] \in 0..MaxFreeProtons
  /\ (pc = "freeDone" /\ mPythiaInfo.hiInfo # NoHiInfo) =>
       /\ ret.assigned
       /\ ret.nFreenProj \in 0..MaxFreeNeutrons /\ ret.nFreenTarg \in 0..MaxFreeNeutrons
       /\ ret.nFreepProj \in 0..MaxFreeProtons /\ ret.nFreepTarg \in 0..MaxFreeProtons

\* a call that clipped a neutron draw at 126 on one side and a negative one
\* to 0 on the other, and whose last proton draw was too large for an int
C8_Witness ==
  /\ pc = "freeDone" /\ mPythiaInfo.hiInfo # NoHiInfo
  /\ ~Negative(gaus.nave) /\ ~Negative(gaus.pave)
  /\ gaus.drawn = BeyondInt(1)
  /\ ret.nFreenProj = MaxFreeNeutrons /\ ret.nFreenTarg = 0
  /\ ret.nFreepProj = MaxFreeProtons /\ ret.nFreepTarg = MaxFreeProtons

----------------------------------------------------------------------------
(* Claims about generateEvent *)

\* C9: generateEvent returns false whenever next() reports that no event
\* could be produced, and true only when every library step it called
\* succeeded; every call returns one of the two, and a failed call leaves the
\* generator able to be called again, with the same rule for the result.
C9_FailureIndicator ==
  /\ \A k \in DOMAIN callLog :
       /\ callLog[k].returned \in BOOLEAN
       /\ callLog[k].next = "failed" => ~callLog[k].returned
       /\ callLog[k].returned <=>
            (callLog[k].next = "ok" /\ callLog[k].decays \in {"ok", "not called"})
  /\ (callLog # <<>> /\ ~callLog[Len(callLog)].returned /\ Len(callLog) < MaxCalls) =>
       ENABLED (\E produced \in Produced(mPythiaInfo.hiInfo # NoHiInfo) :
                  GenerateEvent("ok",
                                IF pythiaVersion < FirstUnpatchedVersion
                                  THEN "ok" ELSE "not called",
                                produced))

\* next() failed, then moreDecays() failed, then a call succeeded
C9_Witness ==
  /\ Len(callLog) = 3
  /\ callLog[1].next = "failed" /\ ~callLog[1].returned
  /\ callLog[2].next = "ok" /\ callLog[2].decays = "failed" /\ ~callLog[2].returned
  /\ callLog[3].next = "ok" /\ callLog[3].decays = "ok" /\ callLog[3].returned
  /\ ret = [op |-> "generateEvent", returned |-> TRUE]

----------------------------------------------------------------------------
(* Claims about updateHeader *)

BasicKeys == {"generator", "version", "processName", "processCode"}

HeavyIonKeys ==
  {"Bimpact", "Ncoll", "Npart",
   "Npart_proj_p", "Npart_proj_n", "Npart_targ_p", "Npart_targ_n",
   "Nremn_proj_p", "Nremn_proj_n", "Nremn_targ_p", "Nremn_targ_n",
   "Nfree_proj_n", "Nfree_proj_p", "Nfree_targ_n", "Nfree_targ_p"}

HeaderUpdated == pc = "headerUpdated"

\* the values the header holds are those of the event just generated
BasicValues ==
  /\ header.info["generator"] = "pythia8"
  /\ header.info["version"] = pythiaVersion
  /\ header.info["processName"] = mPythiaInfo.name
  /\ header.info["processCode"] = mPythiaInfo.code

HeavyIonValues ==
  /\ header.b = mPythiaInfo.hiInfo.b
  /\ header.info["Bimpact"] = mPythiaInfo.hiInfo.b
  /\ header.info["Ncoll"] = getNcoll(mPythiaInfo)
  /\ header.info["Npart"] = getNpart(mPythiaInfo)
  /\ header.info["Npart_proj_p"] = getNpart4(mPythiaInfo).nProtonProj
  /\ header.info["Npart_proj_n"] = getNpart4(mPythiaInfo).nNeutronProj
  /\ header.info["Npart_targ_p"] = getNpart4(mPythiaInfo).nProtonTarg
  /\ header.info["Npart_targ_n"] = getNpart4(mPythiaInfo).nNeutronTarg
  /\ header.info["Nremn_proj_p"] = getNremn(mPythiaEvent).nProtonProj
  /\ header.info["Nremn_proj_n"] = getNremn(mPythiaEvent).nNeutronProj
  /\ header.info["Nremn_targ_p"] = getNremn(mPythiaEvent).nProtonTarg
  /\ header.info["Nremn_targ_n"] = getNremn(mPythiaEvent).nNeutronTarg
  /\ header.info["Nfree_proj_n"] = getNfreeSpec(gaus.free).nFreenProj
  /\ header.info["Nfree_proj_p"] = getNfreeSpec(gaus.free).nFreepProj
  /\ header.info["Nfree_targ_n"] = getNfreeSpec(gaus.free).nFreenTarg
  /\ header.info["Nfree_targ_p"] = getNfreeSpec(gaus.free).nFreepTarg

\* C10 (as claimed): every call of updateHeader after event generation
\* attaches the same fixed set of keys: generator, version, processName,
\* processCode, Bimpact, Ncoll, Npart, Npart_*, Nremn_* and Nfree_*, each with
\* the value the corresponding operation computes for the event.
C10_FixedKeySet ==
  HeaderUpdated =>
    /\ DOMAIN header.info = BasicKeys \cup HeavyIonKeys
    /\ BasicValues
    /\ HeavyIonValues

\* C10 (amended): every call attaches generator, version, processName and
\* processCode; Bimpact, Ncoll, Npart, Npart_*, Nremn_* and Nfree_* are
\* attached (and the impact parameter set) exactly when the generator has
\* heavy-ion info; each value is the one computed for the event.
C10_KeysByHeavyIonInfo ==
  HeaderUpdated =>
    /\ BasicValues
    /\ IF mPythiaInfo.hiInfo # NoHiInfo
         THEN /\ DOMAIN header.info = BasicKeys \cup HeavyIonKeys
              /\ HeavyIonValues
         ELSE /\ DOMAIN header.info = BasicKeys
              /\ header.b = NoHeader.b

\* a heavy-ion event with two sub-collisions and two remnants, annotated
C10_Witness ==
  /\ HeaderUpdated
  /\ mPythiaInfo.hiInfo # NoHiInfo
  /\ header.info["Ncoll"] = 1 /\ header.info["Npart"] = 3
  /\ header.info["Nremn_proj_p"] = 2 /\ header.info["Nremn_targ_n"] = 1
  /\ header.info["Nfree_proj_n"] = 30 /\ header.info["Nfree_targ_n"] = 57
  /\ header.info["Nfree_proj_p"] = 81 /\ header.info["Nfree_targ_p"] = 43

====
